---------------------------- MODULE Spec2Model ----------------------------
(***************************************************************************)
(* Model of scripts/synthesize_data.py: the batch loop that reads board    *)
(* positions, places piece models in the host scene, projects the board    *)
(* corners and the piece bounding boxes, writes the JSON record and        *)
(* invokes the renderer.                                                   *)
(*                                                                         *)
(* Text is a sequence of one-character strings.  Lengths are integers in   *)
(* 1/Unit metres; camera-view coordinates are rationals <<num, den>>.      *)
(***************************************************************************)
EXTENDS Integers, Sequences, FiniteSets, TLC

\* ------------------------------------------------------------ bounds
\* Longest input file (lines) of the batch.
MaxLines == 2
\* Most objects placed by the add_piece harness.
MaxObjs == 2
\* Most vertices of a mesh given to the get_bounding_box harness.
MaxVerts == 2
\* Camera-view grid: a view coordinate is k / ViewDen.
ViewDen == 48

\* ------------------------------------------------------------ constants
\* Lengths are counted in 1/Unit m: 0.75 m and a division by 8 stay exact.
Unit == 4 * 8
CAMERA_STATIC == FALSE
\* The lighting flag switched off: setup_lighting runs for every sample.
LIGHT_STATIC_Off == FALSE
LIGHT_STATIC == TRUE
MIN_BOARD_CORNER_PADDING == 25
BOARD_SIZE == 16 * Unit
BOARD_MARGIN == (3 * Unit) \div 4
SQUARE_LENGTH == (BOARD_SIZE - 2 * BOARD_MARGIN) \div 8
resolution_x == 1200
resolution_y == 800

\* An optional value: Python's None, or a value.
None == [some |-> FALSE]
Some(v) == [some |-> TRUE, val |-> v]

\* ------------------------------------------------------------ arithmetic
\* Python's round(): to the nearest integer, a tie to the even one.
\* The argument is the rational n / d, d > 0.
round(n, d) ==
    LET q == n \div d
        r == n - q * d
    IN  IF 2 * r < d THEN q
        ELSE IF 2 * r > d THEN q + 1
        ELSE IF q % 2 = 0 THEN q ELSE q + 1


\* ------------------------------------------------------------ text
DIGITS == <<"0", "1", "2", "3", "4", "5", "6", "7", "8", "9">>
FILE_NAMES == <<"a", "b", "c", "d", "e", "f", "g", "h">>
RANK_NAMES == <<"1", "2", "3", "4", "5", "6", "7", "8">>
PIECE_SYMBOLS == {"P", "N", "B", "R", "Q", "K", "p", "n", "b", "r", "q", "k"}
SQUARES == 0 .. 63

\* str.strip() of a line: leading and trailing blanks and line ends removed.
RECURSIVE strip(_)
strip(s) ==
    IF s = <<>> THEN s
    ELSE IF Head(s) \in {" ", "\n"} THEN strip(Tail(s))
    ELSE IF s[Len(s)] \in {" ", "\n"} THEN strip(SubSeq(s, 1, Len(s) - 1))
    ELSE s

\* The decimal digits of n >= 0, most significant first.
RECURSIVE Decimal(_)
Decimal(n) ==
    IF n < 10 THEN <<DIGITS[n + 1]>>
    ELSE Append(Decimal(n \div 10), DIGITS[(n % 10) + 1])

RECURSIVE ZeroPad(_, _)
ZeroPad(s, width) == IF Len(s) >= width THEN s ELSE ZeroPad(<<"0">> \o s, width)

\* f"{i:04d}.png": the render file's name (all files share one directory).
Fmt04d(k) == ZeroPad(Decimal(k), 4)
\* The name without the line's index.
filename_Fixed(k) == Fmt04d(0) \o <<".", "p", "n", "g">>
filename(k) == Fmt04d(k) \o <<".", "p", "n", "g">>

\* Path.stem: the name up to its last dot (the whole name without one).
LastDot(s) ==
    LET dots == {k \in 1 .. Len(s) : s[k] = "."}
    IN  IF dots = {} THEN 0 ELSE CHOOSE k \in dots : \A m \in dots : m <= k
stem(s) == IF LastDot(s) <= 1 THEN s ELSE SubSeq(s, 1, LastDot(s) - 1)
json_path(output_file) == stem(output_file) \o <<".", "j", "s", "o", "n">>

\* ------------------------------------------------------------ chess
DigitValue(c) == CHOOSE v \in 1 .. 8 : DIGITS[v + 1] = c
IsSkip(c) == \E v \in 1 .. 8 : DIGITS[v + 1] = c

\* The board part is well formed: eight rows separated by "/", each made of
\* piece letters and digits 1-8 (no two digits in a row) that sum to eight.
RECURSIVE FenScan(_, _, _, _, _)
FenScan(s, k, sum, prevDigit, rows) ==
    IF k > Len(s) THEN sum = 8 /\ rows = 7
    ELSE LET c == s[k]
         IN  IF c = "/" THEN sum = 8 /\ FenScan(s, k + 1, 0, FALSE, rows + 1)
             ELSE IF IsSkip(c)
                  THEN ~prevDigit /\ FenScan(s, k + 1, sum + DigitValue(c), TRUE, rows)
             ELSE IF c \in PIECE_SYMBOLS THEN FenScan(s, k + 1, sum + 1, FALSE, rows)
             ELSE FALSE
FenValid(s) == s # <<>> /\ FenScan(s, 1, 0, FALSE, 0)

\* SQUARES_180: the board part lists rank 8 first.
Square180(idx) == (7 - (idx \div 8)) * 8 + (idx % 8)

RECURSIVE FenFill(_, _, _, _)
FenFill(s, k, idx, b) ==
    IF k > Len(s) THEN b
    ELSE LET c == s[k]
         IN  IF c = "/" THEN FenFill(s, k + 1, idx, b)
             ELSE IF IsSkip(c) THEN FenFill(s, k + 1, idx + DigitValue(c), b)
             ELSE FenFill(s, k + 1, idx + 1, [b EXCEPT ![Square180(idx)] = c])

EmptyBoard == [sq \in SQUARES |-> ""]

\* chess.Board(fen_str): the board; None stands for the ValueError a bad
\* board part raises.
chess_Board(fen_str) ==
    IF FenValid(fen_str) THEN Some(FenFill(fen_str, 1, 0, EmptyBoard)) ELSE None

\* board.piece_map(): the occupied squares, highest square first.
RECURSIVE PieceSquares(_, _)
PieceSquares(b, sq) ==
    IF sq < 0 THEN <<>>
    ELSE IF b[sq] # "" THEN <<sq>> \o PieceSquares(b, sq - 1)
    ELSE PieceSquares(b, sq - 1)
piece_map(b) == PieceSquares(b, 63)

\* board.board_fen(): ranks 8 to 1, files a to h, runs of empty squares counted.
RECURSIVE RankFen(_, _, _, _)
RankFen(b, rank, file, empty) ==
    LET flush == IF empty > 0 THEN <<DIGITS[empty + 1]>> ELSE <<>>
    IN  IF file > 7 THEN flush
        ELSE IF b[rank * 8 + file] = "" THEN RankFen(b, rank, file + 1, empty + 1)
        ELSE flush \o <<b[rank * 8 + file]>> \o RankFen(b, rank, file + 1, 0)
RECURSIVE BoardFen(_, _)
BoardFen(b, rank) ==
    IF rank = 0 THEN RankFen(b, 0, 0, 0)
    ELSE RankFen(b, rank, 0, 0) \o <<"/">> \o BoardFen(b, rank - 1)
board_fen(b) == BoardFen(b, 7)

square_file(sq) == sq % 8
square_rank(sq) == sq \div 8
square_name(sq) == <<FILE_NAMES[square_file(sq) + 1], RANK_NAMES[square_rank(sq) + 1]>>

\* add_piece's two dictionaries: the model's name, color + " " + piece_name.
ModelName(symbol) ==
    CASE symbol = "P" -> "White Pawn"   [] symbol = "p" -> "Black Pawn"
      [] symbol = "N" -> "White Knight" [] symbol = "n" -> "Black Knight"
      [] symbol = "B" -> "White Bishop" [] symbol = "b" -> "Black Bishop"
      [] symbol = "R" -> "White Rook"   [] symbol = "r" -> "Black Rook"
      [] symbol = "Q" -> "White Queen"  [] symbol = "q" -> "Black Queen"
      [] symbol = "K" -> "White King"   [] symbol = "k" -> "Black King"
AllModels == {ModelName(c) : c \in PIECE_SYMBOLS}

\* ------------------------------------------------------------ add_piece
\* The square's near corner: the half square left out.
SquareCoord_Corner(k) == -(BOARD_SIZE \div 2) + BOARD_MARGIN + k * SQUARE_LENGTH

\* The centre of the square, in 1/Unit m:
\* -BOARD_SIZE / 2 + BOARD_MARGIN + (file + 0.5) * SQUARE_LENGTH.
SquareCoord(k) == -(BOARD_SIZE \div 2) + BOARD_MARGIN + ((2 * k + 1) * SQUARE_LENGTH) \div 2
PieceLocation(square) ==
    [x |-> SquareCoord(square_file(square)),
     y |-> SquareCoord(square_rank(square)),
     z |-> 0]

\* add_piece(piece, square, collection): None when the scene has no model of
\* that name, else the copy, which is linked into the collection.
add_piece(symbol, square, sample, objects) ==
    IF ModelName(symbol) \notin objects THEN None
    ELSE Some([name |-> ModelName(symbol), square |-> square, sample |-> sample,
               location |-> PieceLocation(square)])

\* The four board-corner points of get_corner_coordinates, in order.
corner_points ==
    << [x |-> -4 * SQUARE_LENGTH, y |-> -4 * SQUARE_LENGTH, z |-> 0],
       [x |-> -4 * SQUARE_LENGTH, y |->  4 * SQUARE_LENGTH, z |-> 0],
       [x |->  4 * SQUARE_LENGTH, y |->  4 * SQUARE_LENGTH, z |-> 0],
       [x |->  4 * SQUARE_LENGTH, y |-> -4 * SQUARE_LENGTH, z |-> 0] >>

\* ------------------------------------------------ get_corner_coordinates
\* One corner: the host's view coordinates <<vx, vy>> / ViewDen, flipped
\* vertically, scaled by resolution * resolution_percentage * .01, rounded.
CornerPixel(v, pct) ==
    << round(v[1] * resolution_x * pct, ViewDen * 100),
       round((ViewDen - v[2]) * resolution_y * pct, ViewDen * 100) >>

\* The padding test of one corner (its negation raises ValueError).
CornerPadded(p) ==
    /\ MIN_BOARD_CORNER_PADDING <= p[1]
    /\ p[1] <= resolution_x - MIN_BOARD_CORNER_PADDING
    /\ MIN_BOARD_CORNER_PADDING <= p[2]
    /\ p[2] <= resolution_y - MIN_BOARD_CORNER_PADDING

\* views: what world_to_camera_view gives for the four corner_points.
get_corner_coordinates(vs, pct) ==
    IF \E k \in 1 .. Len(vs) : ~CornerPadded(CornerPixel(vs[k], pct)) THEN None
    ELSE Some([k \in 1 .. Len(vs) |-> CornerPixel(vs[k], pct)])

\* ------------------------------------------------------ get_bounding_box
\* camera.view_frame(): the frame's corners are (+-a, +-b, -d).
view_frame == [a |-> 3, b |-> 2, d |-> 1]

\* A vertex in camera space is in front of the camera when z = -co.z > 0;
\* the others are skipped.
Visible(vs) == SelectSeq(vs, LAMBDA v : -v.z > 0)

\* The vertex against the frame scaled to its depth, as the rational
\* (co - min) / (max - min) with min = -a * z / d, max = a * z / d.
NormX(v) == << v.x * view_frame.d + view_frame.a * (-v.z), 2 * view_frame.a * (-v.z) >>
NormY(v) == << v.y * view_frame.d + view_frame.b * (-v.z), 2 * view_frame.b * (-v.z) >>

RatLeq(p, q) == p[1] * q[2] <= q[1] * p[2]
RatMin(S) == CHOOSE p \in S : \A q \in S : RatLeq(p, q)
RatMax(S) == CHOOSE p \in S : \A q \in S : RatLeq(q, p)
\* np.clip(p, 0.0, 1.0)
clip(p) == IF p[1] < 0 THEN <<0, 1>> ELSE IF p[1] > p[2] THEN <<1, 1>> ELSE p

\* round((hi - lo) * resolution * resolution_percentage * 0.01)
Extent(lo, hi, res, pct) ==
    round((hi[1] * lo[2] - lo[1] * hi[2]) * res * pct, hi[2] * lo[2] * 100)

\* The test with "and" for "or".
ZeroSized_Both(width, height) == width = 0 /\ height = 0

\* The test that reports the box as absent.
ZeroSized(width, height) == width = 0 \/ height = 0

\* get_bounding_box(scene, obj) with the object's mesh vertices in camera
\* space.  raised names the exception that leaves the function, or is "".
get_bounding_box(obj, vs, pct) ==
    IF ~obj.some
    THEN [raised |-> "AttributeError", width |-> 0, height |-> 0, ret |-> None]
    ELSE IF Visible(vs) = <<>>
    THEN [raised |-> "ValueError", width |-> 0, height |-> 0, ret |-> None]
    ELSE LET vis   == Visible(vs)
             xs    == {NormX(vis[k]) : k \in 1 .. Len(vis)}
             ys    == {NormY(vis[k]) : k \in 1 .. Len(vis)}
             min_x == clip(RatMin(xs))
             max_x == clip(RatMax(xs))
             min_y == clip(RatMin(ys))
             max_y == clip(RatMax(ys))
             width  == Extent(min_x, max_x, resolution_x, pct)
             height == Extent(min_y, max_y, resolution_y, pct)
         IN  [raised |-> "", width |-> width, height |-> height,
              ret |-> IF ZeroSized(width, height) THEN None
                      ELSE Some(<< round(min_x[1] * resolution_x * pct, min_x[2] * 100),
                                   round((max_y[2] - max_y[1]) * resolution_y * pct,
                                         max_y[2] * 100),
                                   Extent(min_x, max_x, resolution_x, pct),
                                   Extent(min_y, max_y, resolution_y, pct) >>)]

\* ------------------------------------------------------------ inputs
\* Lines of data/fens.txt, as read: the side-to-move flag, the board part,
\* the line end.
LineA == <<"W", "7", "k", "/", "8", "/", "8", "/", "8", "/", "8", "/", "8", "/",
           "8", "/", "P", "7", "\n">>
LineB == <<"w", "8", "/", "8", "/", "8", "/", "8", "/", "3", "q", "4", "/", "8",
           "/", "8", "/", "8", "\n">>
LineEmpty == <<"\n">>
LineBad == <<"W", "8", "/", "8", "/", "x", "\n">>
InputLines == {LineA, LineB, LineEmpty, LineBad}

RECURSIVE SeqsUpTo(_, _)
SeqsUpTo(S, n) ==
    IF n = 0 THEN {<<>>}
    ELSE LET shorter == SeqsUpTo(S, n - 1)
         IN  shorter \cup {Append(q, e) : q \in shorter, e \in S}

\* The scene's piece models: all twelve, or all but the white pawn.
Scenes == {AllModels, AllModels \ {"White Pawn"}}
\* scene.render.resolution_percentage, which the script leaves as the scene has it.
Percentages == {1, 50, 100, 200}
BatchPercentages == {50, 100}
\* The camera poses setup_camera draws from, and the lighting modes.
Poses == {"near", "far"}
LightModes == {"flash", "spotlights"}

\* What world_to_camera_view gives for one corner, over ViewDen.
ViewPoints ==
    { <<ViewDen \div 2, ViewDen \div 2>>, <<1, ViewDen \div 2>>,
      <<ViewDen - 1, ViewDen \div 2>>, <<ViewDen + 1, ViewDen \div 2>>,
      <<ViewDen \div 2, ViewDen - 1>>, <<ViewDen \div 2, 2>> }
CornerViews == [1 .. 4 -> ViewPoints]
\* The batch sees the board whole, or with its third corner out of frame.
ViewInside ==
    << <<ViewDen \div 4, ViewDen \div 4>>, <<ViewDen \div 4, 3 * (ViewDen \div 4)>>,
       <<3 * (ViewDen \div 4), 3 * (ViewDen \div 4)>>, <<3 * (ViewDen \div 4), ViewDen \div 4>> >>
ViewOutside == [ViewInside EXCEPT ![3] = <<ViewDen + 1, 3 * (ViewDen \div 4)>>]
BatchViews == {ViewInside, ViewOutside}

\* Mesh vertices in camera space (the camera looks down -z).
Vertex(x, y, z) == [x |-> x, y |-> y, z |-> z]
BoxVertices ==
    { Vertex(0, 0, -4), Vertex(1, 0, -4), Vertex(0, 1, -4), Vertex(1, 1, -4),
      Vertex(-20, 0, -4), Vertex(20, 5, -4), Vertex(2, 1, -2), Vertex(0, 0, 1),
      Vertex(0, -9, -4) }
Meshes == SeqsUpTo(BoxVertices, MaxVerts)
\* The batch's meshes: a solid in view, or a single point.  (setup_camera keeps
\* the camera above and outside the board, looking at its centre, so no
\* piece of the batch lies wholly behind it.)
MeshSolid == <<Vertex(0, 0, -4), Vertex(2, 1, -2)>>
MeshPoint == <<Vertex(1, 1, -4)>>
BatchMeshes == {MeshSolid, MeshPoint}

\* ------------------------------------------------------------ state
VARIABLES
    lines,                  \* the input file, a sequence of lines
    objects,                \* names of the piece models in bpy.data.objects
    resolution_percentage,  \* scene.render.resolution_percentage
    i,                      \* index of the line being processed
    pc,                     \* the statement the script is at
    raised,                 \* the exception that halted the batch, or ""
    white_turn,             \* turn == "W"
    board,                  \* chess.Board(fen_str)
    todo,                   \* squares of piece_map() still to place
    collection,             \* objects of the "Chess position" collection
    piece_data,             \* entries collected for the current sample
    corner_coords,          \* last result of get_corner_coordinates
    camera,                 \* camera pose and the sample it was drawn for
    lighting,               \* lighting mode and the sample it was drawn for
    views,                  \* last corner projections the host gave
    verts,                  \* last mesh the host gave
    bbox,                   \* last result of get_bounding_box
    files,                  \* the render directory: name -> content
    writes                  \* every file write so far, in order

vars == <<lines, objects, resolution_percentage, i, pc, raised, white_turn, board,
          todo, collection, piece_data, corner_coords, camera, lighting, views,
          verts, bbox, files, writes>>

NoBox == [raised |-> "", width |-> 0, height |-> 0, ret |-> None]

\* The scene and the render directory before the script has run.
Fresh ==
    /\ i = 0
    /\ raised = ""
    /\ white_turn = FALSE
    /\ board = EmptyBoard
    /\ todo = <<>>
    /\ collection = {}
    /\ piece_data = <<>>
    /\ corner_coords = None
    /\ camera = [pose |-> "initial", sample |-> -1]
    /\ lighting = [mode |-> "initial", sample |-> -1]
    /\ views = ViewInside
    /\ verts = <<>>
    /\ bbox = NoBox
    /\ files = <<>>
    /\ writes = <<>>

Init ==
    /\ lines \in SeqsUpTo(InputLines, MaxLines)
    /\ objects \in Scenes
    /\ resolution_percentage \in BatchPercentages
    /\ pc = "loop"
    /\ Fresh

\* The order with the render before the JSON record.
StepAfter_RenderFirst(p) ==
    CASE p = "setup" -> "clear"
      [] p = "clear" -> "place"
      [] p = "place" -> "render"
      [] p = "render" -> "json"
      [] p = "json" -> "loop"

\* The order of render_board's statements, and of the loop around it.
StepAfter(p) ==
    CASE p = "setup" -> "clear"
      [] p = "clear" -> "place"
      [] p = "place" -> "json"
      [] p = "json" -> "render"
      [] p = "render" -> "loop"

\* A handler that logs the exception and goes on with the next line.
Halt_Continue(exc) == pc' = "loop" /\ raised' = exc /\ i' = i + 1

\* An uncaught exception leaves the loop and ends the script.
Halt(exc) == pc' = "halted" /\ raised' = exc /\ i' = i

WriteFile(name, content) ==
    /\ files' = [n \in (DOMAIN files) \cup {name} |->
                    IF n = name THEN content ELSE files[n]]
    /\ writes' = Append(writes, [name |-> name, line |-> i])

\* The flag compared without regard to case.
IsWhiteTurn_AnyCase(turn) == turn \in {"W", "w"}

\* render_board(board, turn == "W", filename): the side-to-move flag.
IsWhiteTurn(turn) == turn = "W"

\* for i, fen in enumerate(map(str.strip, f)): unpack the flag, parse the board.
ReadLine ==
    /\ pc = "loop"
    /\ i < Len(lines)
    /\ LET fen == strip(lines[i + 1])
           b   == IF fen = <<>> THEN None ELSE chess_Board(Tail(fen))
       IN  IF fen = <<>>
           THEN Halt("ValueError") /\ UNCHANGED <<white_turn, board>>
           ELSE IF ~b.some
           THEN Halt("ValueError") /\ UNCHANGED <<white_turn, board>>
           ELSE /\ white_turn' = IsWhiteTurn(Head(fen))
                /\ board' = b.val
                /\ pc' = "setup"
                /\ UNCHANGED <<raised, i>>
    /\ UNCHANGED <<lines, objects, resolution_percentage, todo, collection,
                   piece_data, corner_coords, camera, lighting, views, verts, bbox,
                   files, writes>>

\* The file is exhausted: the script ends.
EndOfFile ==
    /\ pc = "loop"
    /\ i = Len(lines)
    /\ pc' = "done"
    /\ UNCHANGED <<lines, objects, resolution_percentage, i, raised, white_turn,
                   board, todo, collection, piece_data, corner_coords, camera,
                   lighting, views, verts, bbox, files, writes>>

\* render_board up to the corner projection: render settings, the camera
\* and the lighting when not static, get_corner_coordinates.
Setup ==
    /\ pc = "setup"
    /\ \E pose \in Poses :
          camera' = IF CAMERA_STATIC = FALSE THEN [pose |-> pose, sample |-> i]
                    ELSE camera
    /\ \E mode \in LightModes :
          lighting' = IF LIGHT_STATIC = FALSE THEN [mode |-> mode, sample |-> i]
                      ELSE lighting
    /\ \E vs \in BatchViews :
          /\ views' = vs
          /\ corner_coords' = get_corner_coordinates(vs, resolution_percentage)
    /\ pc' = StepAfter("setup")
    /\ UNCHANGED <<lines, objects, resolution_percentage, i, raised, white_turn,
                   board, todo, collection, piece_data, verts, bbox, files, writes>>

\* The removal loop left out: the collection is kept as it is.
RemoveAll_Kept(coll) == coll

\* Remove all objects from the collection.
RemoveAll(coll) == {}

\* The collection is found or created and emptied; piece_data starts empty.
Clear ==
    /\ pc = "clear"
    /\ collection' = RemoveAll(collection)
    /\ piece_data' = <<>>
    /\ todo' = piece_map(board)
    /\ pc' = IF piece_map(board) = <<>> THEN StepAfter("place") ELSE StepAfter("clear")
    /\ UNCHANGED <<lines, objects, resolution_percentage, i, raised, white_turn,
                   board, corner_coords, camera, lighting, views, verts, bbox,
                   files, writes>>

\* One turn of the loop over piece_map(): add_piece, then the entry with
\* the piece's bounding box.
PlacePiece ==
    /\ pc = "place"
    /\ todo # <<>>
    /\ LET square == Head(todo)
           obj    == add_piece(board[square], square, i, objects)
       IN  /\ collection' = IF obj.some THEN collection \cup {obj.val} ELSE collection
           /\ \E vs \in BatchMeshes :
                 LET box == get_bounding_box(obj, vs, resolution_percentage)
                 IN  /\ verts' = vs
                     /\ bbox' = box
                     /\ IF box.raised # ""
                        THEN Halt(box.raised) /\ UNCHANGED <<piece_data, todo>>
                        ELSE /\ piece_data' = Append(piece_data,
                                    [piece |-> board[square],
                                     square |-> square_name(square),
                                     box |-> box.ret])
                             /\ todo' = Tail(todo)
                             /\ pc' = IF Tail(todo) = <<>> THEN StepAfter("place")
                                      ELSE "place"
                             /\ UNCHANGED <<raised, i>>
    /\ UNCHANGED <<lines, objects, resolution_percentage, white_turn, board,
                   corner_coords, camera, lighting, views, files, writes>>

\* Write data output: the JSON record beside the render file.
WriteJson ==
    /\ pc = "json"
    /\ WriteFile(json_path(filename(i)),
                 [kind |-> "json", fen |-> board_fen(board), white_turn |-> white_turn,
                  corners |-> corner_coords, pieces |-> piece_data])
    /\ pc' = StepAfter("json")
    /\ i' = IF StepAfter("json") = "loop" THEN i + 1 ELSE i
    /\ UNCHANGED <<lines, objects, resolution_percentage, raised, white_turn, board,
                   todo, collection, piece_data, corner_coords, camera, lighting,
                   views, verts, bbox>>

\* bpy.ops.render.render(write_still=1): the host writes the image, or fails.
Render ==
    /\ pc = "render"
    /\ \E ok \in BOOLEAN :
          IF ok
          THEN /\ WriteFile(filename(i),
                            [kind |-> "image", objects |-> collection])
               /\ pc' = StepAfter("render")
               /\ i' = IF StepAfter("render") = "loop" THEN i + 1 ELSE i
               /\ raised' = raised
          ELSE Halt("RuntimeError") /\ UNCHANGED <<files, writes>>
    /\ UNCHANGED <<lines, objects, resolution_percentage, white_turn, board, todo,
                   collection, piece_data, corner_coords, camera, lighting, views,
                   verts, bbox>>

Next == ReadLine \/ EndOfFile \/ Setup \/ Clear \/ PlacePiece \/ WriteJson \/ Render

Spec == Init /\ [][Next]_vars

\* ------------------------------------------------------------ harnesses
\* The three geometric procedures called on their own, over wider inputs.
Harness ==
    /\ lines = <<>>
    /\ objects = AllModels
    /\ resolution_percentage \in Percentages
    /\ pc = "harness"
    /\ Fresh

CallCorners ==
    /\ pc = "harness"
    /\ \E vs \in CornerViews :
          /\ views' = vs
          /\ corner_coords' = get_corner_coordinates(vs, resolution_percentage)
    /\ pc' = "returned"
    /\ UNCHANGED <<lines, objects, resolution_percentage, i, raised, white_turn,
                   board, todo, collection, piece_data, camera, lighting, verts,
                   bbox, files, writes>>

SpecCorners == Harness /\ [][CallCorners]_vars

CallBox ==
    /\ pc = "harness"
    /\ \E vs \in Meshes :
          /\ verts' = vs
          /\ bbox' = get_bounding_box(Some([name |-> "White Pawn"]), vs,
                                      resolution_percentage)
    /\ pc' = "returned"
    /\ UNCHANGED <<lines, objects, resolution_percentage, i, raised, white_turn,
                   board, todo, collection, piece_data, corner_coords, camera,
                   lighting, views, files, writes>>

SpecBox == Harness /\ [][CallBox]_vars

CallAddPiece ==
    /\ Cardinality(collection) < MaxObjs
    /\ \E square \in SQUARES :
          collection' = collection \cup {add_piece("Q", square, i, objects).val}
    /\ pc' = "returned"
    /\ UNCHANGED <<lines, objects, resolution_percentage, i, raised, white_turn,
                   board, todo, piece_data, corner_coords, camera, lighting, views,
                   verts, bbox, files, writes>>

SpecPlace == Harness /\ [][CallAddPiece]_vars

\* ------------------------------------------------------------ claims
JsonOf(k) == json_path(filename(k))
Written(name) == name \in DOMAIN files
LineIndices == 0 .. (Len(lines) - 1)

\* C1: when the renderer is invoked for sample i the collection holds exactly
\* the objects add_piece made for sample i, one per piece of the board whose
\* model exists, and from the first add_piece of a sample on it holds no
\* object of an earlier sample.
C1_CollectionHoldsOnlyThisSample ==
    /\ pc \in {"place", "json", "render"} => \A o \in collection : o.sample = i
    /\ pc = "render" =>
          LET placed == {sq \in SQUARES : board[sq] # "" /\ ModelName(board[sq]) \in objects}
          IN  /\ {o.square : o \in collection} = placed
              /\ Cardinality(collection) = Cardinality(placed)
              /\ \A o \in collection : o.name = ModelName(board[o.square])

\* The second sample is about to be rendered, and the first was rendered
\* with pieces in the collection.
C1_Witness ==
    /\ pc = "render"
    /\ i = 1
    /\ collection # {}
    /\ Written(filename(0))
    /\ files[filename(0)].objects # {}

\* C2: a piece whose model is missing from the scene never halts the batch
\* (the piece is skipped and the sample and the batch go on).
C2_MissingModelIsLocal ==
    \A sq \in SQUARES :
        (board[sq] # "" /\ ModelName(board[sq]) \notin objects)
            => ~(pc = "halted" /\ raised = "AttributeError")

\* The size of the rendered image: the resolution scaled by the percentage.
ImageWidth == (resolution_x * resolution_percentage) \div 100
ImageHeight == (resolution_y * resolution_percentage) \div 100

\* C3: get_corner_coordinates returns None or exactly four points, each at
\* least MIN_BOARD_CORNER_PADDING pixels inside every edge of the rendered
\* image.
C3_CornersPaddedInImage ==
    (pc = "returned" /\ corner_coords.some) =>
        /\ Len(corner_coords.val) = 4
        /\ \A k \in 1 .. 4 :
              /\ MIN_BOARD_CORNER_PADDING <= corner_coords.val[k][1]
              /\ corner_coords.val[k][1] <= ImageWidth - MIN_BOARD_CORNER_PADDING
              /\ MIN_BOARD_CORNER_PADDING <= corner_coords.val[k][2]
              /\ corner_coords.val[k][2] <= ImageHeight - MIN_BOARD_CORNER_PADDING

\* C4: the width and height get_bounding_box computes are never negative,
\* it returns None exactly when one of them is zero, and a box it returns
\* has width >= 1 and height >= 1.
C4_BoxExtentsNonNegative ==
    (pc = "returned" /\ bbox.raised = "") =>
        /\ bbox.width >= 0
        /\ bbox.height >= 0
        /\ ~bbox.ret.some <=> (bbox.width = 0 \/ bbox.height = 0)
        /\ bbox.ret.some => (bbox.ret.val[3] >= 1 /\ bbox.ret.val[4] >= 1)

\* A box was returned for a mesh that reaches outside the frame (its
\* coordinates were clipped).
C4_WitnessBox ==
    /\ pc = "returned"
    /\ bbox.ret.some
    /\ \E k \in 1 .. Len(verts) : verts[k].x < -12

BadLine(l) == l \in {LineEmpty, LineBad}

\* C6: lines are processed in order, and an error on line k halts the batch:
\* nothing is placed, drawn or written for line k's board or any later
\* line, and the files written before stay.
C6_ErrorHaltsBatch ==
    /\ \A a, b \in 1 .. Len(writes) : a < b => writes[a].line <= writes[b].line
    /\ \A n \in 1 .. Len(writes) : writes[n].line <= i /\ Written(writes[n].name)
    /\ pc = "halted" => raised # ""
    /\ \A k \in LineIndices :
          BadLine(lines[k + 1]) =>
              /\ i <= k
              /\ \A n \in 1 .. Len(writes) : writes[n].line < k
              /\ \A o \in collection : o.sample < k
              /\ camera.sample < k
              /\ (i = k /\ pc # "loop") => pc = "halted"

\* The batch stopped at a bad second line, and the first line's files are
\* there.
C6_Witness ==
    /\ pc = "halted"
    /\ Len(lines) = 2
    /\ i = 1
    /\ BadLine(lines[2])
    /\ Written(filename(0))
    /\ Written(JsonOf(0))

\* The four-digit zero-padded decimal of k < 10000, digit by digit.
FourDigits(k) == [d \in 1 .. 4 |-> DIGITS[((k \div (10 ^ (4 - d))) % 10) + 1]]
\* Line indices around the widths of the padding.
FarIndices == {0, 9, 10, 99, 100, 999, 1000, 9999, 10000, 10001, 100000}

\* Different indices give different base names, shared by the image and the
\* JSON file, of at least four characters.
FarNamesApart ==
    \A a, b \in FarIndices :
        a # b => /\ stem(filename(a)) # stem(filename(b))
                 /\ stem(filename(a)) = stem(JsonOf(a))
                 /\ Len(stem(filename(a))) >= 4

\* C7: every line processed to completion wrote exactly one image and one
\* JSON file, both named by the line's index zero-padded to four digits,
\* and no name is written twice.
C7_OnePairOfFilesPerLine ==
    /\ \A k \in LineIndices :
          (k < i) =>
              /\ Cardinality({n \in 1 .. Len(writes) : writes[n].line = k}) = 2
              /\ \E n \in 1 .. Len(writes) :
                    /\ writes[n].line = k
                    /\ writes[n].name = FourDigits(k) \o <<".", "p", "n", "g">>
                    /\ files[writes[n].name].kind = "image"
              /\ \E n \in 1 .. Len(writes) :
                    /\ writes[n].line = k
                    /\ writes[n].name = FourDigits(k) \o <<".", "j", "s", "o", "n">>
                    /\ files[writes[n].name].kind = "json"
    /\ \A a, b \in 1 .. Len(writes) : writes[a].name = writes[b].name => a = b
    /\ FarNamesApart

C7_Witness == pc = "done" /\ Len(lines) = 2 /\ Len(writes) = 4

\* The number of piece letters of a board part.
RECURSIVE CountPieces(_)
CountPieces(s) ==
    IF s = <<>> THEN 0
    ELSE (IF Head(s) \in PIECE_SYMBOLS THEN 1 ELSE 0) + CountPieces(Tail(s))

Entries(data) == {<<data.pieces[n].piece, data.pieces[n].square>> : n \in 1 .. Len(data.pieces)}

\* C8: the record written for a line has one entry per occupied square of
\* the line's board, no square twice, none for an empty square, and its
\* white_turn is true exactly when the line starts with "W".
C8_RecordMatchesBoard ==
    \A k \in LineIndices :
        Written(JsonOf(k)) =>
            LET data == files[JsonOf(k)]
                line == lines[k + 1]
            IN  /\ Len(data.pieces) = CountPieces(Tail(line))
                /\ \A a, b \in 1 .. Len(data.pieces) :
                      data.pieces[a].square = data.pieces[b].square => a = b
                /\ line = LineA => Entries(data) = { <<"k", <<"h", "8">>>>,
                                                     <<"P", <<"a", "1">>>> }
                /\ line = LineB => Entries(data) = { <<"q", <<"d", "4">>>> }
                /\ data.white_turn <=> line[1] = "W"

C8_Witness ==
    /\ pc = "done"
    /\ lines = <<LineA, LineB>>
    /\ files[JsonOf(0)].white_turn
    /\ ~files[JsonOf(1)].white_turn
    /\ \E n \in 1 .. 2 : ~files[JsonOf(0)].pieces[n].box.some

\* C9 as stated: the renderer runs before the JSON is written, so a JSON
\* file never exists without its image.
C9_NoJsonWithoutImage ==
    \A k \in LineIndices : Written(JsonOf(k)) => Written(filename(k))

\* C9 amended: the JSON is written before the renderer runs, so an image
\* never exists without its JSON file, and a failed render leaves the
\* sample's JSON file without an image.
C9_NoImageWithoutJson ==
    /\ \A k \in LineIndices : Written(filename(k)) => Written(JsonOf(k))
    /\ (pc = "halted" /\ raised = "RuntimeError") =>
          (Written(JsonOf(i)) /\ ~Written(filename(i)))

C9_Witness ==
    /\ pc = "halted"
    /\ raised = "RuntimeError"
    /\ i = 1
    /\ Written(filename(0))

CornerXs == {corner_points[k].x : k \in 1 .. 4}
CornerYs == {corner_points[k].y : k \in 1 .. 4}

\* C10: every placed piece is at z = 0, x and y are set by the file and the
\* rank, two pieces are apart by SQUARE_LENGTH times the difference of their
\* files (ranks), and every piece is at least half a square inside the
\* rectangle of the four board-corner points.
C10_PiecesAtSquareCentres ==
    \A o \in collection :
        /\ o.location.z = 0
        /\ \A cx \in CornerXs :
              2 * (o.location.x - cx) >= SQUARE_LENGTH \/ 2 * (cx - o.location.x) >= SQUARE_LENGTH
        /\ \A cy \in CornerYs :
              2 * (o.location.y - cy) >= SQUARE_LENGTH \/ 2 * (cy - o.location.y) >= SQUARE_LENGTH
        /\ \A cx \in CornerXs : \E dx \in CornerXs :
              (cx < o.location.x /\ o.location.x < dx) \/ (dx < o.location.x /\ o.location.x < cx)
        /\ \A cy \in CornerYs : \E dy \in CornerYs :
              (cy < o.location.y /\ o.location.y < dy) \/ (dy < o.location.y /\ o.location.y < cy)
        /\ \A q \in collection :
              /\ o.location.x - q.location.x = ((o.square % 8) - (q.square % 8)) * SQUARE_LENGTH
              /\ o.location.y - q.location.y
                    = ((o.square \div 8) - (q.square \div 8)) * SQUARE_LENGTH
              /\ o.square # q.square => o.location # q.location

\* Pieces stand on two opposite corner squares, a1 and h8.
C10_Witness ==
    /\ pc = "returned"
    /\ \E o, q \in collection : o.square = 0 /\ q.square = 63

=============================================================================
